---- MODULE Spec2Model ----
(***************************************************************************)
(* Model of the timetable parser of src/src/main.rs: Class::new,           *)
(* ExcelData::new and ExcelData::parse (subgroup-header scan, body scan,   *)
(* assembly of the groups, the four per-sheet workers).                    *)
(*                                                                         *)
(* Text is a sequence of one-character strings.  The three Cyrillic class  *)
(* type labels are written letter by letter in Latin transliteration (the  *)
(* module is ASCII); only equality of labels is ever used.                 *)
(*                                                                         *)
(* A sheet is a rectangular range: every row of a sheet (header rows and   *)
(* body rows alike) has the same number of cells, the sheet's width.       *)
(* Every panic of the code is an error outcome named after the check that  *)
(* raised it.                                                              *)
(***************************************************************************)
EXTENDS Integers, Sequences, FiniteSets, TLC

\* ------------------------------------------------------------------ bounds
\* widest sheet (cells per row) whose whole parse is explored
MaxWidth == 9
\* widest sheet whose subgroup-header scan is explored
MaxHeaderWidth == 12
\* most body row pairs the rows iterator is asked for in one sheet
MaxPairs == 50
\* longest description text enumerated for Class::new
MaxLen == 5

\* ---------------------------------------------------------------- helpers
None == [some |-> FALSE]
Some(x) == [some |-> TRUE, v |-> x]

Min(a, b) == IF a < b THEN a ELSE b

\* calamine::DataType, the variants the parser tells apart
Empty == [type |-> "Empty"]
String(s) == [type |-> "String", s |-> s]
Float(n) == [type |-> "Float", f |-> n]

is_string(cell) == cell.type = "String"
is_empty(cell) == cell.type = "Empty"

\* decimal text of a natural number below 1000
DigitChar(d) == CASE d = 0 -> "0" [] d = 1 -> "1" [] d = 2 -> "2" [] d = 3 -> "3"
                  [] d = 4 -> "4" [] d = 5 -> "5" [] d = 6 -> "6" [] d = 7 -> "7"
                  [] d = 8 -> "8" [] d = 9 -> "9"
ToStr(n) == IF n < 10 THEN <<DigitChar(n)>>
            ELSE IF n < 100 THEN <<DigitChar(n \div 10), DigitChar(n % 10)>>
            ELSE <<DigitChar(n \div 100), DigitChar((n \div 10) % 10), DigitChar(n % 10)>>

\* str::find: index of the first occurrence of pat in s, 0 when there is none
FindSub(s, pat) ==
    LET hits == {i \in 1..(Len(s) - Len(pat) + 1) : SubSeq(s, i, i + Len(pat) - 1) = pat}
    IN  IF hits = {} THEN 0 ELSE CHOOSE i \in hits : \A j \in hits : i <= j

\* the split at the last occurrence of pat
split_onceMutLast(s, pat) ==
    LET hits == {i \in 1..(Len(s) - Len(pat) + 1) : SubSeq(s, i, i + Len(pat) - 1) = pat}
        i == IF hits = {} THEN 0 ELSE CHOOSE k \in hits : \A j \in hits : j <= k
    IN  IF i = 0 THEN None
        ELSE Some(<<SubSeq(s, 1, i - 1), SubSeq(s, i + Len(pat), Len(s))>>)
\* str::split_once: the text before and after the first occurrence of pat
split_once(s, pat) ==
    LET i == FindSub(s, pat)
    IN  IF i = 0 THEN None
        ELSE Some(<<SubSeq(s, 1, i - 1), SubSeq(s, i + Len(pat), Len(s))>>)

\* str::strip_suffix
strip_suffix(s, suf) ==
    IF Len(s) >= Len(suf) /\ SubSeq(s, Len(s) - Len(suf) + 1, Len(s)) = suf
    THEN Some(SubSeq(s, 1, Len(s) - Len(suf)))
    ELSE None

\* ------------------------------------------------------------- Class::new
\* "Лекционные", "Практические", "Лабораторные", transliterated
LabelLection == <<"L", "e", "k", "c", "i", "o", "n", "n", "y", "e">>
LabelPractice == <<"P", "r", "a", "k", "t", "i", "c", "h", "e", "s", "k", "i", "e">>
LabelLab == <<"L", "a", "b", "o", "r", "a", "t", "o", "r", "n", "y", "e">>

\* the labels compared without regard to the case of the first letter
ClassTypeOfMutNoCase(label) ==
    LET upper == IF Len(label) > 0 /\ label[1] = "l" THEN <<"L">> \o Tail(label)
                 ELSE IF Len(label) > 0 /\ label[1] = "p" THEN <<"P">> \o Tail(label)
                 ELSE label
    IN  IF upper = LabelLection THEN [tag |-> "Lection"]
        ELSE IF upper = LabelPractice THEN [tag |-> "Practice"]
        ELSE IF upper = LabelLab THEN [tag |-> "Lab"]
        ELSE [tag |-> "Unknown", label |-> label]
ClassTypeOf(label) ==
    IF label = LabelLection THEN [tag |-> "Lection"]
    ELSE IF label = LabelPractice THEN [tag |-> "Practice"]
    ELSE IF label = LabelLab THEN [tag |-> "Lab"]
    ELSE [tag |-> "Unknown", label |-> label]

\* the teacher kept from the text after the first newline (None: no newline)
TeacherMutTrim(teacher) ==
    IF teacher.some /\ (\A i \in 1..Len(teacher.v) : teacher.v[i] \in {" ", "\n"})
    THEN None ELSE teacher
TeacherOf(teacher) ==
    IF teacher.some /\ Len(teacher.v) = 0 THEN None ELSE teacher

ClassNew(name_and_teacher, room) ==
    IF ~is_string(name_and_teacher) THEN None
    ELSE LET first == split_once(name_and_teacher.s, <<" ", "(">>)
         IN IF ~first.some THEN None
            ELSE LET name == first.v[1]
                     rest == first.v[2]
                     second == split_once(rest, <<"\n">>)
                     class_type == IF second.some THEN second.v[1] ELSE rest
                     teacher == TeacherOf(IF second.some THEN Some(second.v[2]) ELSE None)
                     stripped == strip_suffix(class_type, <<")">>)
                 IN IF ~stripped.some THEN None
                    ELSE IF ~is_string(room) THEN None
                    ELSE Some([name |-> name,
                               class_type |-> ClassTypeOf(stripped.v),
                               teacher |-> teacher,
                               room |-> room.s])

\* -------------------------------------------------- subgroup-header scan
\* <u8 as FromStr>::from_str: optional '+', then one or more decimal digits,
\* value at most 255
IsDigit(ch) == ch \in {"0", "1", "2", "3", "4", "5", "6", "7", "8", "9"}
DigitVal(ch) == CHOOSE d \in 0..9 : DigitChar(d) = ch
RECURSIVE DigitsValue(_, _)
DigitsValue(s, acc) ==
    IF s = <<>> THEN acc
    ELSE IF acc * 10 + DigitVal(Head(s)) > 255 THEN 256
    ELSE DigitsValue(Tail(s), acc * 10 + DigitVal(Head(s)))
ParseU8(s) ==
    LET digits == IF Len(s) > 0 /\ s[1] = "+" THEN Tail(s) ELSE s
    IN  IF Len(digits) = 0 THEN None
        ELSE IF \E i \in 1..Len(digits) : ~IsDigit(digits[i]) THEN None
        ELSE IF DigitsValue(digits, 0) > 255 THEN None
        ELSE Some(DigitsValue(digits, 0))

\* parse_datacell: Some(n), or None when one of its two unwraps panics
parse_datacell(cell) ==
    IF ~is_string(cell) THEN None ELSE ParseU8(cell.s)

Last(list) == list[Len(list)]

\* does the number that arrives close the current list and open a new one
StartsNewList(list, parsed) == Len(list) > 0 /\ Last(list) > parsed

\* is the accumulator pushed when an empty cell is consumed
PushOnEmptyMutNumbered(cell_num, acc) == cell_num # 0 /\ acc.some
PushOnEmpty(cell_num, acc) == cell_num # 0

\* is None pushed for the previous group when a number arrives with no list open
PushNoneOnStartMutNever(cell_num) == FALSE
PushNoneOnStart(cell_num) == cell_num # 0

\* One iteration of the loop over second_row: st holds subgroups (the output
\* so far), subgroup_numbers (the accumulator) and err.
HeaderStep(st, cell_num, cell) ==
    IF is_empty(cell)
    THEN [st EXCEPT !.subgroups = IF PushOnEmpty(cell_num, st.subgroup_numbers)
                                  THEN Append(@, st.subgroup_numbers) ELSE @,
                    !.subgroup_numbers = None]
    ELSE IF ~is_string(cell) THEN [st EXCEPT !.err = "CellTypeMismatch"]
    ELSE LET opened == ~st.subgroup_numbers.some
             pushed == IF opened /\ PushNoneOnStart(cell_num)
                       THEN Append(st.subgroups, None) ELSE st.subgroups
             vec == IF opened THEN <<>> ELSE st.subgroup_numbers.v
             parsed == parse_datacell(cell)
         IN IF ~parsed.some
            THEN [subgroups |-> pushed, subgroup_numbers |-> Some(vec),
                  err |-> "UnparsableSubgroupNumber"]
            ELSE IF StartsNewList(vec, parsed.v)
            THEN [subgroups |-> Append(pushed, Some(vec)),
                  subgroup_numbers |-> Some(<<parsed.v>>), err |-> st.err]
            ELSE [subgroups |-> pushed,
                  subgroup_numbers |-> Some(Append(vec, parsed.v)), err |-> st.err]

\* the push after the loop
HeaderFlush(st) == [st EXCEPT !.subgroups = Append(@, st.subgroup_numbers)]

ClusterSizeMutNoneZero(el) == IF el.some THEN Len(el.v) ELSE 0
ClusterSize(el) == IF el.some THEN Len(el.v) ELSE 1

RECURSIVE SumSizes(_)
SumSizes(clusters) ==
    IF clusters = <<>> THEN 0 ELSE ClusterSize(Head(clusters)) + SumSizes(Tail(clusters))

SubgroupsNumMutLen(clusters) == Len(clusters)
SubgroupsNum(clusters) == SumSizes(clusters)

\* cells of a row of `width` cells that .skip(3).step_by(2) yields
ConsumedCount(width) == IF width <= 3 THEN 0 ELSE (width - 3 + 1) \div 2

\* -------------------------------------------------------------- the sheet
\* Cell p (0-based) of body row r (0-based, after the two header rows) of
\* sheet sh.  The three lead-in cells are strings; from cell 3 on the cells
\* alternate description / room, column c at cells 3+2c and 3+2c+1.  The
\* text names the sheet, the row and the column, so that every slot's class
\* tells where it was read from.
BodyLabel(r) == IF r % 3 = 0 THEN LabelLab ELSE <<"x">>
BodyDescription(sh, r, c) ==
    IF r % 4 = 3 THEN Empty
    ELSE String(ToStr(sh.name) \o <<".">> \o ToStr(r) \o <<".">> \o ToStr(c)
                \o <<" ", "(">> \o BodyLabel(r) \o <<")">>
                \o (IF r % 4 = 2 THEN <<"\n", "T">> ELSE <<>>))
BodyRoom(sh, r, c) ==
    IF (r + c) % 5 = 4 THEN Float(r) ELSE String(<<"R">> \o ToStr(c))
BodyCell(sh, r, p) ==
    IF p < 3 THEN String(<<"t">>)
    ELSE IF (p - 3) % 2 = 0 THEN BodyDescription(sh, r, (p - 3) \div 2)
    ELSE BodyRoom(sh, r, (p - 3) \div 2)

\* text of the group-name cell above column c
GroupName(c) == <<"G">> \o ToStr(c)

\* First header row: the columns in `named` carry a group name in their
\* description cell, every other cell after the lead-in is empty.
FirstRowCell(named, p) ==
    IF p < 3 THEN String(<<"h">>)
    ELSE IF (p - 3) % 2 = 0 /\ ((p - 3) \div 2) \in named
    THEN String(GroupName((p - 3) \div 2))
    ELSE Empty

\* rows.next().unwrap().iter().skip(3).filter(is_string): the texts kept
RECURSIVE FilterStrings(_, _, _)
FilterStrings(named, p, width) ==
    IF p >= width THEN <<>>
    ELSE IF is_string(FirstRowCell(named, p))
    THEN <<FirstRowCell(named, p).s>> \o FilterStrings(named, p + 1, width)
    ELSE FilterStrings(named, p + 1, width)
first_row(named, width) == FilterStrings(named, 3, width)

\* -------------------------------------------------------------- body scan
DefaultDay == [upper_classes |-> [l \in 0..6 |-> None],
               lower_classes |-> [l \in 0..6 |-> None]]
DefaultWeek == [d \in 0..6 |-> DefaultDay]

day_numMutMod(row_count) == row_count % 7
day_num(row_count) == row_count \div 7
lesson_numMutDiv(row_count) == row_count \div 7
lesson_num(row_count) == row_count % 7

\* the first assertion alone
TooManyRowsMutFirstOnly(row_count) == ~(row_count <= 7 * 7)
\* the three assertions on the pair index
TooManyRows(row_count) ==
    ~(row_count <= 7 * 7) \/ ~(day_num(row_count) <= 6) \/ ~(lesson_num(row_count) <= 6)

\* The row-length assertion on a row of len cells.  For len < 3 the
\* subtraction len - 3 overflows: a panic in a checked build, and in an
\* unchecked build a quotient of at least 2^63 - 2, which no subgroups_num
\* equals: the check fails in both.
RowLenOkMutCeil(len, subgroups_num) == len >= 3 /\ (len - 3 + 1) \div 2 = subgroups_num
RowLenOk(len, subgroups_num) == len >= 3 /\ (len - 3) \div 2 = subgroups_num

\* items of row.iter().skip(3).tuple_windows().step_by(2)
WindowCount(len) == IF len - 3 >= 2 THEN (len - 3) \div 2 ELSE 0

\* body rows of pair k
UpperRowMutLower(k) == 2 * k + 1
UpperRow(k) == 2 * k
LowerRow(k) == 2 * k + 1

\* cell of the description of column c, the room is the next cell
ColumnCellMutOverlap(c) == 3 + c
ColumnCell(c) == 3 + 2 * c

\* the classes after the inner loop over the columns of pair row_count
ScanPair(classes, sh, row_count, columns) ==
    [c \in DOMAIN classes |->
        IF c >= columns THEN classes[c]
        ELSE [classes[c] EXCEPT ![day_num(row_count)] =
                [upper_classes |-> [@.upper_classes EXCEPT ![lesson_num(row_count)] =
                     ClassNew(BodyCell(sh, UpperRow(row_count), ColumnCell(c)),
                              BodyCell(sh, UpperRow(row_count), ColumnCell(c) + 1))],
                 lower_classes |-> [@.lower_classes EXCEPT ![lesson_num(row_count)] =
                     ClassNew(BodyCell(sh, LowerRow(row_count), ColumnCell(c)),
                              BodyCell(sh, LowerRow(row_count), ColumnCell(c) + 1))]]]]

\* how often each slot has been assigned
NoWrites(n) ==
    [c \in 0..(n - 1) |-> [d \in 0..6 |-> [upper_classes |-> [l \in 0..6 |-> 0],
                                            lower_classes |-> [l \in 0..6 |-> 0]]]]
CountPair(writes, row_count, columns) ==
    [c \in DOMAIN writes |->
        IF c >= columns THEN writes[c]
        ELSE [writes[c] EXCEPT
                ![day_num(row_count)].upper_classes[lesson_num(row_count)] = @ + 1,
                ![day_num(row_count)].lower_classes[lesson_num(row_count)] = @ + 1]]

\* One iteration of the loop over the row pairs: the error that ends it, if any
PairError(width, row_count, subgroups_num) ==
    IF TooManyRows(row_count) THEN "TooManyRows"
    ELSE IF ~RowLenOk(width, subgroups_num) THEN "RowColumnCountMismatch"
    ELSE IF WindowCount(width) > subgroups_num THEN "TooManyColumns"
    ELSE "none"

\* --------------------------------------------------------------- assembly
\* weeks a cluster pulls off week_iter when `left` weeks remain
PulledMutOne(el, left) == Min(1, left)
PulledMutExtra(el, left) == IF el.some THEN Min(Len(el.v) + 1, left) ELSE 1
Pulled(el, left) == IF el.some THEN Min(Len(el.v), left) ELSE 1

GroupOf(name, el, weeks, cursor, left) ==
    [name |-> name,
     subgroups |->
        IF el.some
        THEN [tag |-> "WithSubgroups",
              list |-> [j \in 1..Min(Len(el.v), left) |->
                          [number |-> el.v[j], days |-> weeks[cursor + j - 1]]]]
        ELSE [tag |-> "WithoutSubgroup", week |-> weeks[cursor]]]

\* first_row.zip(subgroups).map(..).collect(): groups, the error, if any, and
\* the number of weeks pulled off week_iter
RECURSIVE AssembleFrom(_, _, _, _)
AssembleFrom(names, clusters, weeks, cursor) ==
    IF names = <<>> \/ clusters = <<>>
    THEN [groups |-> <<>>, err |-> "none", cursor |-> cursor]
    ELSE LET el == Head(clusters)
             left == Cardinality(DOMAIN weeks) - cursor
         IN IF ~el.some /\ left <= 0
            THEN [groups |-> <<>>, err |-> "WeekCursorExhausted", cursor |-> cursor]
            ELSE LET rest == AssembleFrom(Tail(names), Tail(clusters), weeks,
                                          cursor + Pulled(el, left))
                 IN [groups |-> <<GroupOf(Head(names), el, weeks, cursor, left)>>
                                    \o rest.groups,
                     err |-> rest.err,
                     cursor |-> rest.cursor]

Assemble(names, clusters, weeks) == AssembleFrom(names, clusters, weeks, 0)

CourseNew(name, groups) == [name |-> name, groups |-> groups]

\* subgroups.iter().find(|subgroup| subgroup.number == subgroup_number): the
\* position of the first subgroup of that number, 0 when there is none
FindSubgroup(list, subgroup_number) ==
    IF \E j \in 1..Len(list) : list[j].number = subgroup_number
    THEN CHOOSE j \in 1..Len(list) :
            /\ list[j].number = subgroup_number
            /\ \A k \in 1..(j - 1) : list[k].number # subgroup_number
    ELSE 0

\* GroupInfo::get_subgroup
get_subgroup(group, subgroup_number) ==
    IF group.subgroups.tag = "WithSubgroups"
       /\ FindSubgroup(group.subgroups.list, subgroup_number) # 0
    THEN Some(group.subgroups.list[FindSubgroup(group.subgroups.list, subgroup_number)])
    ELSE None

\* ------------------------------------------------- whole-phase operators
\* the loop over second_row from cell cell_num on, stopping at an error
RECURSIVE HeaderFold(_, _, _)
HeaderFold(st, cells, cell_num) ==
    IF cells = <<>> \/ st.err # "none" THEN st
    ELSE HeaderFold(HeaderStep(st, cell_num, Head(cells)), Tail(cells), cell_num + 1)

HeaderStart == [subgroups |-> <<>>, subgroup_numbers |-> None, err |-> "none"]

\* subgroups after the header scan of the consumed cells, and the error
HeaderScan(cells) ==
    LET st == HeaderFold(HeaderStart, cells, 0)
    IN  IF st.err # "none" THEN st ELSE HeaderFlush(st)

\* the loop over the row pairs row_count .. pairs-1
RECURSIVE BodyFold(_, _, _, _, _)
BodyFold(classes, sh, row_count, pairs, subgroups_num) ==
    IF row_count >= pairs THEN [classes |-> classes, err |-> "none"]
    ELSE IF PairError(sh.width, row_count, subgroups_num) # "none"
    THEN [classes |-> classes, err |-> PairError(sh.width, row_count, subgroups_num)]
    ELSE BodyFold(ScanPair(classes, sh, row_count, WindowCount(sh.width)),
                  sh, row_count + 1, pairs, subgroups_num)

\* rows.next().unwrap(), twice: does the sheet have its two header rows
HasHeaderRows(header_rows) == header_rows >= 2

\* The closure given to map: the Course of one sheet, or the error that ends
\* it.  sh: name, width, header_rows (how many of the two header rows the
\* sheet has), second_row (the consumed cells), named, pairs.
ParseSheet(sh) ==
    LET hs == HeaderScan(sh.second_row)
        n == SubgroupsNum(hs.subgroups)
        body == BodyFold([c \in 0..(n - 1) |-> DefaultWeek], sh, 0, sh.pairs, n)
        asm == Assemble(first_row(sh.named, sh.width), hs.subgroups, body.classes)
    IN  IF ~HasHeaderRows(sh.header_rows) THEN [err |-> "NoHeaderRow"]
        ELSE IF hs.err # "none" THEN [err |-> hs.err]
        ELSE IF body.err # "none" THEN [err |-> body.err]
        ELSE IF asm.err # "none" THEN [err |-> asm.err]
        ELSE [err |-> "none", course |-> CourseNew(sh.name, asm.groups)]

\* ------------------------------------------------------------------ state
VARIABLES
    sheet,             \* the sheet being parsed: name, width
    pc,                \* position in the closure: start, header, body, assemble, done, error
    cell_num,          \* index of the next consumed cell of second_row
    consumed,          \* the cells of second_row consumed so far
    subgroups,         \* Vec<Option<Vec<u8>>>
    subgroup_numbers,  \* Option<Vec<u8>>, the accumulator
    subgroups_num,
    classes,           \* Vec<Week>, indexed from 0
    writes,            \* number of assignments made to each slot of classes
    row_count,         \* index of the next row pair
    body_rows,         \* body rows of the sheet, known when rows is exhausted
    named,             \* columns whose first-row cell is a string
    course,            \* the Course returned by the closure
    err,               \* the error outcome, "none" while there is none
    pages,             \* ExcelData.pages, the sheets of the workbook
    wpc,               \* per worker: idle, got, stored, panicked
    got,               \* per worker: the closure's result
    courses,           \* [MaybeUninit<Course>; 4]
    stores,            \* writes made to each element of courses
    outcome,           \* what parse returned: pending, the array, or a panic
    name_and_teacher,  \* Class::new: the description cell
    room,              \* Class::new: the room cell
    class_out          \* Class::new: "pending", then the Option<Class> returned

sheetvars == <<sheet, pc, cell_num, consumed, subgroups, subgroup_numbers, subgroups_num,
               classes, writes, row_count, body_rows, named, course, err>>
parvars == <<pages, wpc, got, courses, stores, outcome>>
classvars == <<name_and_teacher, room, class_out>>
vars == <<sheetvars, parvars, classvars>>

\* cells the subgroup header is drawn from
HeaderCells == {Empty, String(<<"0">>), String(<<"1">>), String(<<"2">>),
                Float(1), String(<<>>), String(<<"x">>), String(<<"-", "1">>),
                String(<<"2", "5", "6">>)}

SheetOff ==
    /\ sheet = [name |-> 0, width |-> 0]
    /\ pc = "off"
    /\ cell_num = 0 /\ consumed = <<>> /\ subgroups = <<>> /\ subgroup_numbers = None
    /\ subgroups_num = 0 /\ classes = <<>> /\ writes = <<>> /\ row_count = 0
    /\ body_rows = 0 /\ named = {} /\ course = None /\ err = "none"
ParOff ==
    /\ pages = <<>> /\ wpc = <<>> /\ got = <<>> /\ courses = <<>> /\ stores = <<>>
    /\ outcome = [tag |-> "off"]
ClassOff ==
    /\ name_and_teacher = Empty /\ room = Empty /\ class_out = [tag |-> "off"]

SheetStart(maxw) ==
    /\ sheet \in [name : {1}, width : 1..maxw]
    /\ pc = "start"
    /\ cell_num = 0 /\ consumed = <<>> /\ subgroups = <<>> /\ subgroup_numbers = None
    /\ subgroups_num = 0 /\ classes = <<>> /\ writes = <<>> /\ row_count = 0
    /\ body_rows = 0 /\ named = {} /\ course = None /\ err = "none"

Init == SheetStart(MaxWidth) /\ ParOff /\ ClassOff
InitHeader == SheetStart(MaxHeaderWidth) /\ ParOff /\ ClassOff

\* ---------------------------------------------------- the closure, stepwise
Fail(e) ==
    /\ pc' = "error"
    /\ err' = e

\* rows.next().unwrap(), twice: the two header rows
ReadHeaders ==
    /\ pc = "start"
    /\ \E present \in BOOLEAN :
          IF present THEN pc' = "header" /\ err' = err ELSE Fail("NoHeaderRow")
    /\ UNCHANGED <<sheet, cell_num, consumed, subgroups, subgroup_numbers, subgroups_num,
                   classes, writes, row_count, body_rows, named, course>>
    /\ UNCHANGED <<parvars, classvars>>

\* one iteration of the loop over second_row
HeaderCell ==
    /\ pc = "header"
    /\ cell_num < ConsumedCount(sheet.width)
    /\ \E cell \in HeaderCells :
          LET st == HeaderStep([subgroups |-> subgroups,
                                subgroup_numbers |-> subgroup_numbers,
                                err |-> err], cell_num, cell)
          IN  /\ consumed' = Append(consumed, cell)
              /\ subgroups' = st.subgroups
              /\ subgroup_numbers' = st.subgroup_numbers
              /\ err' = st.err
              /\ pc' = IF st.err = "none" THEN "header" ELSE "error"
    /\ cell_num' = cell_num + 1
    /\ UNCHANGED <<sheet, subgroups_num, classes, writes, row_count, body_rows, named,
                   course>>
    /\ UNCHANGED <<parvars, classvars>>

\* the push after the loop, subgroups_num and the default weeks
HeaderFinish ==
    /\ pc = "header"
    /\ cell_num = ConsumedCount(sheet.width)
    /\ LET st == HeaderFlush([subgroups |-> subgroups,
                              subgroup_numbers |-> subgroup_numbers, err |-> err])
           n == SubgroupsNum(st.subgroups)
       IN  /\ subgroups' = st.subgroups
           /\ subgroups_num' = n
           /\ classes' = [c \in 0..(n - 1) |-> DefaultWeek]
           /\ writes' = NoWrites(n)
    /\ pc' = "body"
    /\ UNCHANGED <<sheet, cell_num, consumed, subgroup_numbers, row_count, body_rows,
                   named, course, err>>
    /\ UNCHANGED <<parvars, classvars>>

\* one iteration of the loop over the row pairs
BodyPair ==
    /\ pc = "body"
    /\ row_count < MaxPairs
    /\ LET e == PairError(sheet.width, row_count, subgroups_num)
       IN  IF e # "none"
           THEN Fail(e) /\ UNCHANGED <<classes, writes, row_count>>
           ELSE /\ classes' = ScanPair(classes, sheet, row_count, WindowCount(sheet.width))
                /\ writes' = CountPair(writes, row_count, WindowCount(sheet.width))
                /\ row_count' = row_count + 1
                /\ UNCHANGED <<pc, err>>
    /\ UNCHANGED <<sheet, cell_num, consumed, subgroups, subgroup_numbers, subgroups_num,
                   body_rows, named, course>>
    /\ UNCHANGED <<parvars, classvars>>

\* rows is exhausted: no further pair, with or without a last unpaired row
BodyEnd ==
    /\ pc = "body"
    /\ \E unpaired \in {0, 1} : body_rows' = 2 * row_count + unpaired
    /\ pc' = "assemble"
    /\ UNCHANGED <<sheet, cell_num, consumed, subgroups, subgroup_numbers, subgroups_num,
                   classes, writes, row_count, named, course, err>>
    /\ UNCHANGED <<parvars, classvars>>

\* first_row.zip(subgroups).map(..).collect() and Course::new
AssembleGroups ==
    /\ pc = "assemble"
    /\ \E cols \in SUBSET (0..(ConsumedCount(sheet.width) - 1)) :
          LET asm == Assemble(first_row(cols, sheet.width), subgroups, classes)
          IN  /\ named' = cols
              /\ IF asm.err # "none" THEN Fail(asm.err) /\ UNCHANGED course
                 ELSE /\ course' = Some(CourseNew(sheet.name, asm.groups))
                      /\ pc' = "done"
                      /\ UNCHANGED err
    /\ UNCHANGED <<sheet, cell_num, consumed, subgroups, subgroup_numbers, subgroups_num,
                   classes, writes, row_count, body_rows>>
    /\ UNCHANGED <<parvars, classvars>>

Next == ReadHeaders \/ HeaderCell \/ HeaderFinish \/ BodyPair \/ BodyEnd \/ AssembleGroups
Spec == Init /\ [][Next]_vars

NextHeader == ReadHeaders \/ HeaderCell \/ HeaderFinish
SpecHeader == InitHeader /\ [][NextHeader]_vars

\* ------------------------------------------- ExcelData::new and parse
\* sheets a workbook is made of.  range is what worksheet_range gives for
\* the sheet: "ok" (Some(Ok(range))), "none" (None) or "err" (Some(Err(_))).
\* The readable ones: two subgroups, no subgroups, a header cell that is a
\* number, a sheet of one row, a sheet of no rows.
SheetChoices ==
    { [range |-> "ok", width |-> 7, header_rows |-> 2,
       second_row |-> <<String(<<"1">>), String(<<"2">>)>>,
       named |-> {0}, pairs |-> 1],
      [range |-> "ok", width |-> 5, header_rows |-> 2,
       second_row |-> <<Empty>>, named |-> {0}, pairs |-> 2],
      [range |-> "ok", width |-> 5, header_rows |-> 2,
       second_row |-> <<Float(1)>>, named |-> {0}, pairs |-> 0],
      [range |-> "ok", width |-> 5, header_rows |-> 1,
       second_row |-> <<>>, named |-> {0}, pairs |-> 0],
      [range |-> "ok", width |-> 0, header_rows |-> 0,
       second_row |-> <<>>, named |-> {}, pairs |-> 0],
      [range |-> "none", width |-> 0, header_rows |-> 0,
       second_row |-> <<>>, named |-> {}, pairs |-> 0],
      [range |-> "err", width |-> 0, header_rows |-> 0,
       second_row |-> <<>>, named |-> {}, pairs |-> 0] }

\* sheet i of a workbook: its name and its content
Page(i, content) ==
    [name |-> i, range |-> content.range, width |-> content.width,
     header_rows |-> content.header_rows, second_row |-> content.second_row,
     named |-> content.named, pairs |-> content.pairs]

\* the workbooks of n sheets, and the numbers of sheets explored
Workbooks(n) == {[i \in 1..n |-> Page(i, f[i])] : f \in [1..n -> SheetChoices]}
SheetCounts == 3..5

Workers == 1..4

InitPar ==
    /\ SheetOff /\ ClassOff
    /\ \E n \in SheetCounts : pages \in Workbooks(n)
    /\ wpc = [i \in Workers |-> "new"]
    /\ got = [i \in Workers |-> None]
    /\ courses = [i \in Workers |-> None]
    /\ stores = [i \in Workers |-> 0]
    /\ outcome = [tag |-> "pending"]

\* assert_eq!(pages.len(), 4)
SheetCountOkMutAtLeast(n) == n >= 4
SheetCountOk(n) == n = 4

\* the first sheet, in the order of the names, whose
\* worksheet_range(..).unwrap().unwrap() panics; 0 when all can be read
FirstUnreadable(ps) ==
    IF \E i \in 1..Len(ps) : ps[i].range # "ok"
    THEN CHOOSE i \in 1..Len(ps) :
            /\ ps[i].range # "ok"
            /\ \A j \in 1..(i - 1) : ps[j].range = "ok"
    ELSE 0

\* the panic of the two unwraps: Option::unwrap on None, Result::unwrap on Err
RangeError(range) == IF range = "none" THEN "SheetRangeNone" ELSE "SheetRangeErr"

\* ExcelData::new: the assertion on the number of sheets, then the ranges of
\* the four sheets are read in order; read counts the calls of worksheet_range
ExcelDataNew ==
    /\ outcome.tag = "pending"
    /\ \A i \in Workers : wpc[i] = "new"
    /\ IF ~SheetCountOk(Len(pages))
       THEN outcome' = [tag |-> "WrongSheetCount", read |-> 0] /\ UNCHANGED wpc
       ELSE IF FirstUnreadable(pages) # 0
       THEN /\ outcome' = [tag |-> RangeError(pages[FirstUnreadable(pages)].range),
                           read |-> FirstUnreadable(pages)]
            /\ UNCHANGED wpc
       ELSE wpc' = [i \in Workers |-> "idle"] /\ UNCHANGED outcome
    /\ UNCHANGED <<pages, got, courses, stores>>
    /\ UNCHANGED <<sheetvars, classvars>>

\* element of courses that the item of page i is zipped with
SlotOfMutArrival(i) == 1 + Cardinality({j \in Workers : stores[j] > 0})
SlotOf(i) == i

\* the map closure on page i
WorkerParse(i) ==
    /\ outcome.tag = "pending"
    /\ wpc[i] = "idle"
    /\ LET res == ParseSheet(pages[i])
       IN  IF res.err # "none"
           THEN wpc' = [wpc EXCEPT ![i] = "panicked"] /\ UNCHANGED got
           ELSE /\ wpc' = [wpc EXCEPT ![i] = "got"]
                /\ got' = [got EXCEPT ![i] = Some(res.course)]
    /\ UNCHANGED <<pages, courses, stores, outcome>>
    /\ UNCHANGED <<sheetvars, classvars>>

\* store.write(got)
WorkerStore(i) ==
    /\ outcome.tag = "pending"
    /\ wpc[i] = "got"
    /\ courses' = [courses EXCEPT ![SlotOf(i)] = got[i]]
    /\ stores' = [stores EXCEPT ![SlotOf(i)] = @ + 1]
    /\ wpc' = [wpc EXCEPT ![i] = "stored"]
    /\ UNCHANGED <<pages, got, outcome>>
    /\ UNCHANGED <<sheetvars, classvars>>

\* The values of the types of main.rs, whatever their contents: the texts,
\* Option<T>, ClassType, Class, Day, Week, Subgroup, WeekInfo, GroupInfo.
AnyText == Seq(STRING)
AnyOption(S) == {None} \cup [some : {TRUE}, v : S]
AnyClassType ==
    [tag : {"Lection", "Practice", "Lab"}] \cup [tag : {"Unknown"}, label : AnyText]
AnyClass ==
    [name : AnyText, class_type : AnyClassType, teacher : AnyOption(AnyText),
     room : AnyText]
AnyDay ==
    [upper_classes : [0..6 -> AnyOption(AnyClass)],
     lower_classes : [0..6 -> AnyOption(AnyClass)]]
AnyWeek == [0..6 -> AnyDay]
AnySubgroup == [number : 0..255, days : AnyWeek]
AnyWeekInfo ==
    [tag : {"WithSubgroups"}, list : Seq(AnySubgroup)]
       \cup [tag : {"WithoutSubgroup"}, week : AnyWeek]
AnyGroup == [name : AnyText, subgroups : AnyWeekInfo]

\* Courses an element never written may be taken for.  The memory holds any
\* bytes, among them what an earlier Course left there, so the element may
\* read as any Course at all, valid or not: any name (a sheet's, the empty
\* text 0, or, below 0, bytes that are no text) with any list of groups, each
\* a group of any contents or bytes that are no group.
GarbageGroup == [name |-> <<"?">>, subgroups |-> [tag |-> "Garbage"]]
UninitNames == Int
UninitGroups == Seq(AnyGroup \cup {GarbageGroup})
UninitCourses == [name : UninitNames, groups : UninitGroups]

\* assume_init of an element: the value written, or, for an element never
\* written (undefined behaviour), any of UninitCourses
AssumeInit(el) == IF el.some THEN {el.v} ELSE UninitCourses

\* the outcomes of courses.map(assume_init): the array of the values, or,
\* when an element was never written, also the death of the process on
\* touching it
ReturnOutcomes(cs) ==
    [tag : {"returned"},
     array : AssumeInit(cs[1]) \X AssumeInit(cs[2]) \X AssumeInit(cs[3])
                \X AssumeInit(cs[4])]
    \cup (IF \E i \in Workers : ~cs[i].some THEN {[tag |-> "crash"]} ELSE {})

\* for_each has returned: courses.map(assume_init)
ParseReturn ==
    /\ outcome.tag = "pending"
    /\ \A i \in Workers : wpc[i] = "stored"
    /\ \E o \in ReturnOutcomes(courses) : outcome' = o
    /\ UNCHANGED <<pages, wpc, got, courses, stores>>
    /\ UNCHANGED <<sheetvars, classvars>>

\* a worker's panic is propagated once no write is in flight
ParsePanic ==
    /\ outcome.tag = "pending"
    /\ \E i \in Workers : wpc[i] = "panicked"
    /\ \A i \in Workers : wpc[i] # "got"
    /\ outcome' = [tag |-> "panic"]
    /\ UNCHANGED <<pages, wpc, got, courses, stores>>
    /\ UNCHANGED <<sheetvars, classvars>>

NextPar ==
    \/ ExcelDataNew
    \/ \E i \in Workers : WorkerParse(i)
    \/ \E i \in Workers : WorkerStore(i)
    \/ ParseReturn
    \/ ParsePanic
SpecPar == InitPar /\ [][NextPar]_vars

\* ------------------------------------------------------ Class::new, alone
Chars == {"a", " ", "(", ")", "\n"}
Texts == UNION {[1..k -> Chars] : k \in 0..MaxLen}

\* descriptions spelled with the fixed labels and near misses of them
LabelTexts == {LabelLection, LabelPractice, LabelLab, <<>>, <<"x">>,
               <<"l", "e", "k", "c", "i", "o", "n", "n", "y", "e">>,
               <<"L", "a", "b", "o", "r", "a", "t", "o", "r", "n", "y", "e", " ">>}
Labelled ==
    {n \o <<" ", "(">> \o lab \o <<")">> \o t :
        n \in {<<>>, <<"a">>}, lab \in LabelTexts,
        t \in {<<>>, <<"\n">>, <<"\n", "a">>, <<"\n", " ">>}}

DescriptionCells == {String(s) : s \in Texts \cup Labelled} \cup {Empty, Float(1)}
RoomCells == {String(<<"r">>), String(<<>>), Empty, Float(1)}

InitClass ==
    /\ SheetOff /\ ParOff
    /\ name_and_teacher \in DescriptionCells
    /\ room \in RoomCells
    /\ class_out = [tag |-> "pending"]

ClassNewCall ==
    /\ class_out.tag = "pending"
    /\ class_out' = [tag |-> "returned", value |-> ClassNew(name_and_teacher, room)]
    /\ UNCHANGED <<name_and_teacher, room>>
    /\ UNCHANGED <<sheetvars, parvars>>

NextClass == ClassNewCall
SpecClass == InitClass /\ [][NextClass]_vars

\* ------------------------------------------------ claims: the header scan
S1 == String(<<"1">>)
S2 == String(<<"2">>)

\* the step taken consumed a cell holding a number while a list was open
NumberOnOpenList ==
    /\ pc = "header"
    /\ cell_num' = cell_num + 1
    /\ subgroup_numbers.some
    /\ Len(subgroup_numbers.v) > 0
    /\ parse_datacell(Last(consumed')).some

\* C1: a number n arriving on a non-empty list closes the list (pushed as
\* Some(list), a new list [n] begun) when n <= the last element, and is
\* appended only when n > the last element; two equal consecutive numbers
\* end up in two different clusters.
C1_ClosesOnLessOrEqual ==
    [][NumberOnOpenList =>
         LET n == parse_datacell(Last(consumed')).v
         IN  IF n <= Last(subgroup_numbers.v)
             THEN /\ subgroups' = Append(subgroups, subgroup_numbers)
                  /\ subgroup_numbers' = Some(<<n>>)
             ELSE /\ subgroups' = subgroups
                  /\ subgroup_numbers' = Some(Append(subgroup_numbers.v, n))]_vars

AllConsumedEmpty == \A i \in 1..Len(consumed) : is_empty(consumed[i])

\* C8, as stated: a header row whose consumed cells are all empty yields
\* [None] and subgroups_num = 1, however many cells were consumed.
C8_AllEmptyGivesOneNone ==
    (pc = "body" /\ AllConsumedEmpty) => (subgroups = <<None>> /\ subgroups_num = 1)

\* C8, amended: such a row yields one None entry per consumed cell (one entry
\* when no cell was consumed), and subgroups_num is that number of entries.
C8_AllEmptyGivesNonePerCell ==
    (pc = "body" /\ AllConsumedEmpty) =>
        /\ Len(subgroups) = (IF Len(consumed) = 0 THEN 1 ELSE Len(consumed))
        /\ \A i \in 1..Len(subgroups) : subgroups[i] = None
        /\ subgroups_num = Len(subgroups)

C8_Witness ==
    /\ pc = "body"
    /\ Len(consumed) = 3
    /\ AllConsumedEmpty
    /\ subgroups = <<None, None, None>>

\* C9, as stated: "1", "2", empty, "1", empty yields [Some([1,2]), Some([1])]
\* and subgroups_num = 3.
C9_EmptyOnlyClosesRun ==
    (pc = "body" /\ consumed = <<S1, S2, Empty, S1, Empty>>) =>
        (subgroups = <<Some(<<1, 2>>), Some(<<1>>)>> /\ subgroups_num = 3)

\* C9, amended: it yields [Some([1,2]), None, Some([1]), None] and
\* subgroups_num = 5: each empty consumed cell is a cluster of its own.
C9_EmptyIsOwnCluster ==
    (pc = "body" /\ consumed = <<S1, S2, Empty, S1, Empty>>) =>
        (subgroups = <<Some(<<1, 2>>), None, Some(<<1>>), None>> /\ subgroups_num = 5)

C9_Witness ==
    /\ pc = "body"
    /\ consumed = <<S1, S2, Empty, S1, Empty>>
    /\ Len(subgroups) = 4

\* ------------------------------------- claims: body scan and assembly
ScanFinished == pc \in {"assemble", "done"}

\* C2, as stated: no Course is returned when the number of group-name cells
\* differs from the number of clusters.
C2_CountMismatchIsError ==
    pc = "done" => Len(first_row(named, sheet.width)) = Len(subgroups)

\* C3: a row pair is scanned only if the rows hold exactly 2 * subgroups_num
\* cells after the lead-in; any other row length ends the scan in
\* RowColumnCountMismatch with no slot touched.
C3_RowLengthChecked ==
    [][(/\ pc = "body"
        /\ pc' # "assemble"
        /\ (sheet.width < 3 \/ sheet.width - 3 # 2 * subgroups_num))
       => (pc' = "error" /\ err' = "RowColumnCountMismatch" /\ classes' = classes)]_vars

\* a row with one cell too few for its columns was refused
C3_Witness ==
    /\ pc = "error"
    /\ err = "RowColumnCountMismatch"
    /\ sheet.width - 3 = 2 * subgroups_num - 1
    /\ subgroups_num = 2

\* C4, as stated: after a body scan without error every slot has been
\* written exactly once.
C4_EverySlotOnce ==
    ScanFinished =>
        \A c \in 0..(subgroups_num - 1) : \A d \in 0..6 : \A l \in 0..6 :
            writes[c][d].upper_classes[l] = 1 /\ writes[c][d].lower_classes[l] = 1

\* C4, amended: no slot is written twice, and the slots written are those of
\* the row pairs present: (day d, lesson l) of every column is written once
\* when 7d + l is below the number of pairs scanned and never otherwise; so
\* all slots are written once exactly when the body has 49 pairs.
C4_SlotOncePerPair ==
    (pc \in {"body", "assemble", "done"}) =>
        /\ \A c \in 0..(subgroups_num - 1) : \A d \in 0..6 : \A l \in 0..6 :
              /\ writes[c][d].upper_classes[l] = (IF 7 * d + l < row_count THEN 1 ELSE 0)
              /\ writes[c][d].lower_classes[l] = (IF 7 * d + l < row_count THEN 1 ELSE 0)
        /\ (ScanFinished /\ body_rows \in {98, 99}) =>
              \A c \in 0..(subgroups_num - 1) : \A d \in 0..6 : \A l \in 0..6 :
                  writes[c][d].upper_classes[l] = 1 /\ writes[c][d].lower_classes[l] = 1

C4_Witness ==
    /\ pc = "done"
    /\ body_rows = 98
    /\ subgroups_num = 3
    /\ \A c \in 0..2 : \A d \in 0..6 : \A l \in 0..6 :
          writes[c][d].upper_classes[l] = 1 /\ writes[c][d].lower_classes[l] = 1

\* the class the cells of column c of body row r spell
ClassAt(r, c) ==
    ClassNew(BodyCell(sheet, r, 3 + 2 * c), BodyCell(sheet, r, 3 + 2 * c + 1))

\* C5: the step that scans pair k stores, for every column c, the class of
\* body row 2k at weeks[c][k / 7].upper_classes[k % 7] and that of row 2k+1
\* at weeks[c][k / 7].lower_classes[k % 7] and changes no other slot; a step
\* that scans no pair (the end of the rows, with or without a last unpaired
\* row, or an error) changes no slot.
C5_IndexMapping ==
    [][pc = "body" =>
         IF row_count' = row_count + 1
         THEN \A c \in 0..(subgroups_num - 1) : \A d \in 0..6 : \A l \in 0..6 :
                 /\ classes'[c][d].upper_classes[l] =
                       (IF d = row_count \div 7 /\ l = row_count % 7
                        THEN ClassAt(2 * row_count, c)
                        ELSE classes[c][d].upper_classes[l])
                 /\ classes'[c][d].lower_classes[l] =
                       (IF d = row_count \div 7 /\ l = row_count % 7
                        THEN ClassAt(2 * row_count + 1, c)
                        ELSE classes[c][d].lower_classes[l])
         ELSE classes' = classes]_vars

\* 99 body rows: pair 48 is at day 6, lesson 6 of every column, and the
\* unpaired row 98 is in no slot
C5_Witness ==
    /\ pc = "assemble"
    /\ body_rows = 99
    /\ subgroups_num = 2
    /\ classes[1][6].lower_classes[6] = ClassAt(97, 1)
    /\ classes[1][6].lower_classes[6].some
    /\ classes[0][0].upper_classes[0] = ClassAt(0, 0)
    /\ classes[0][0].upper_classes[0].some

\* the i-th smallest member of a set of numbers, i from 1
RECURSIVE NthSmallest(_, _)
NthSmallest(set, i) ==
    LET least == CHOOSE x \in set : \A y \in set : x <= y
    IN  IF i = 1 THEN least ELSE NthSmallest(set \ {least}, i - 1)

\* first column of cluster i (from 1): the sizes of the clusters before it
Offset(i) == SumSizes(SubSeq(subgroups, 1, i - 1))

\* C6: group i has the name of the i-th named column from the left and the
\* weeks of the consecutive columns from Offset(i) on: a Some(list) cluster
\* gives WithSubgroups whose j-th subgroup has number list[j] and the week of
\* column Offset(i)+j, a None cluster gives WithoutSubgroup with the week of
\* column Offset(i).
C6_PositionalAssembly ==
    pc = "done" =>
        LET groups == course.v.groups
            count == Min(Cardinality(named), Len(subgroups))
        IN  /\ Len(groups) = count
            /\ \A i \in 1..count :
                  /\ groups[i].name = GroupName(NthSmallest(named, i))
                  /\ IF subgroups[i].some
                     THEN /\ groups[i].subgroups.tag = "WithSubgroups"
                          /\ Len(groups[i].subgroups.list) = Len(subgroups[i].v)
                          /\ \A j \in 1..Len(subgroups[i].v) :
                                /\ groups[i].subgroups.list[j].number = subgroups[i].v[j]
                                /\ groups[i].subgroups.list[j].days
                                      = classes[Offset(i) + j - 1]
                     ELSE /\ groups[i].subgroups.tag = "WithoutSubgroup"
                          /\ groups[i].subgroups.week = classes[Offset(i)]

\* [Some([1,2]), None] under two names, the three weeks pairwise different
C6_Witness ==
    /\ pc = "done"
    /\ subgroups = <<Some(<<1, 2>>), None>>
    /\ Len(course.v.groups) = 2
    /\ course.v.groups[2].subgroups.tag = "WithoutSubgroup"
    /\ course.v.groups[2].subgroups.week = classes[2]
    /\ classes[0] # classes[1] /\ classes[1] # classes[2] /\ classes[0] # classes[2]

\* ------------------------------------------------- claims: the workers
\* C7: in every interleaving of the four workers each element of courses is
\* written at most once, and the array parse returns holds at index i the
\* Course built from sheet i alone (named after it), every element written
\* exactly once: the array a sequential pass over the sheets gives.
C7_SheetOrderKept ==
    /\ (outcome.tag \in {"pending", "returned", "panic"}) =>
           \A i \in Workers : stores[i] <= 1
    /\ outcome.tag = "returned" =>
           \A i \in Workers :
              /\ stores[i] = 1
              /\ outcome.array[i].name = pages[i].name
              /\ outcome.array[i] = ParseSheet(pages[i]).course

\* an array was returned for a workbook whose sheets 1 and
\* 2 differ in content
C7_Witness ==
    /\ outcome.tag = "returned"
    /\ pages[1].width # pages[2].width
    /\ outcome.array[1].groups # outcome.array[2].groups
    /\ Len(outcome.array[1].groups) = 1

\* ----------------------------------------------------- claims: Class::new
Whitespace == {" ", "\n"}
IsBlank(s) == \A i \in 1..Len(s) : s[i] \in Whitespace

\* the text after the first newline that follows the first " (", if any
TeacherPart(s) ==
    LET open == FindSub(s, <<" ", "(">>)
        rest == SubSeq(s, open + 2, Len(s))
        nl == FindSub(rest, <<"\n">>)
    IN  IF nl = 0 THEN None ELSE Some(SubSeq(rest, nl + 1, Len(rest)))

ClassReturned == class_out.tag = "returned" /\ class_out.value.some

\* C10, as stated: teacher is None when the teacher part is empty after
\* trimming whitespace, Some(text) otherwise.
C10_TeacherTrimmed ==
    ClassReturned =>
        LET part == TeacherPart(name_and_teacher.s)
        IN  class_out.value.v.teacher =
               (IF ~part.some \/ IsBlank(part.v) THEN None ELSE part)

\* C10, amended: teacher is None when there is no teacher part or the part
\* is the empty text, and Some(text), untrimmed, otherwise: a part made of
\* spaces or further newlines is kept as the teacher.
C10_TeacherEmptyOnly ==
    ClassReturned =>
        LET part == TeacherPart(name_and_teacher.s)
        IN  class_out.value.v.teacher =
               (IF ~part.some \/ Len(part.v) = 0 THEN None ELSE part)

C10_Witness ==
    /\ ClassReturned
    /\ name_and_teacher = String(<<" ", "(", ")", "\n", " ">>)
    /\ class_out.value.v.teacher = Some(<<" ">>)


\* the text between the first " (" and the first newline after it, or the
\* end of the text
TypePart(s) ==
    LET open == FindSub(s, <<" ", "(">>)
        rest == SubSeq(s, open + 2, Len(s))
        nl == FindSub(rest, <<"\n">>)
    IN  IF nl = 0 THEN rest ELSE SubSeq(rest, 1, nl - 1)

Grammatical(s) ==
    /\ FindSub(s, <<" ", "(">>) # 0
    /\ Len(TypePart(s)) > 0
    /\ TypePart(s)[Len(TypePart(s))] = ")"

\* C11: Class::new returns a Class exactly when the description cell is a
\* string that contains " (" and whose part between the first " (" and the
\* next newline (or the end) ends with ")", and the room cell is a string;
\* the name is then the text before the first " (" and the room is the room
\* cell's text.
C11_ClassIffGrammar ==
    class_out.tag = "returned" =>
        /\ class_out.value.some <=>
              (/\ is_string(name_and_teacher)
               /\ Grammatical(name_and_teacher.s)
               /\ is_string(room))
        /\ class_out.value.some =>
              /\ class_out.value.v.name =
                    SubSeq(name_and_teacher.s, 1,
                           FindSub(name_and_teacher.s, <<" ", "(">>) - 1)
              /\ class_out.value.v.room = room.s

\* " ( ()" holds " (" twice: the name is the text before the first one
C11_Witness ==
    /\ ClassReturned
    /\ name_and_teacher = String(<<" ", "(", " ", "(", ")">>)
    /\ class_out.value.v.name = <<>>
    /\ class_out.value.v.room = <<"r">>

\* the label: the type part without its closing ")"
LabelOf(s) == SubSeq(TypePart(s), 1, Len(TypePart(s)) - 1)

\* C12: the class type is Lection, Practice or Lab exactly when the label
\* equals the corresponding fixed text; every other label L, the empty one and
\* one differing only in case included, gives Unknown(L), and Unknown never
\* carries one of the three fixed texts.
C12_TypeByExactLabel ==
    ClassReturned =>
        LET label == LabelOf(name_and_teacher.s)
            type == class_out.value.v.class_type
        IN  /\ type.tag = "Lection" <=> label = LabelLection
            /\ type.tag = "Practice" <=> label = LabelPractice
            /\ type.tag = "Lab" <=> label = LabelLab
            /\ label \notin {LabelLection, LabelPractice, LabelLab} =>
                  type = [tag |-> "Unknown", label |-> label]
            /\ type.tag = "Unknown" =>
                  type.label \notin {LabelLection, LabelPractice, LabelLab}

\* the label of Lection with a small first letter is Unknown
C12_Witness ==
    /\ ClassReturned
    /\ LabelOf(name_and_teacher.s) = <<"l">> \o Tail(LabelLection)
    /\ class_out.value.v.class_type = [tag |-> "Unknown", label |-> <<"l">> \o Tail(LabelLection)]


\* ------------------------------------------------ claims: the row bound
\* C13: the body scan ends in TooManyRows exactly when it meets a 50th row
\* pair (pair index 49, at least 100 body rows); a body of 49 pairs (98 or 99
\* rows) is scanned to its end, its last pair stored at day 6, lesson 6;
\* no pair with an index above 48 is ever scanned, so no day above 6 is used.
C13_FiftiethPairFails ==
    [][pc = "body" =>
         /\ (err' = "TooManyRows") <=> (row_count = 49 /\ pc' # "assemble")
         /\ row_count' = row_count + 1 => (row_count <= 48 /\ row_count \div 7 <= 6)
         /\ (pc' = "assemble" /\ body_rows' \in {98, 99}) =>
               /\ row_count = 49
               /\ err' = "none"
               /\ \A c \in 0..(subgroups_num - 1) :
                     /\ classes'[c][6].upper_classes[6] = ClassAt(96, c)
                     /\ classes'[c][6].lower_classes[6] = ClassAt(97, c)]_vars

\* a 50th pair was met after 49 pairs had been stored
C13_Witness ==
    /\ pc = "error"
    /\ err = "TooManyRows"
    /\ row_count = 49
    /\ subgroups_num = 2
    /\ classes[0][6].lower_classes[6] = ClassAt(97, 0)
    /\ classes[0][6].lower_classes[6].some


\* --------------------------------------------- claims: the sheet count
\* C14: a workbook of other than 4 sheets ends in WrongSheetCount, and in
\* such a run no sheet is ever read or parsed: worksheet_range is never
\* called (so an unreadable sheet is not noticed), no worker leaves its
\* initial position, no closure result exists and no element of courses is
\* written.
C14_WrongSheetCountFirst ==
    /\ outcome.tag = "WrongSheetCount" <=>
          (Len(pages) # 4 /\ outcome.tag # "pending")
    /\ outcome.tag = "WrongSheetCount" => outcome.read = 0
    /\ Len(pages) # 4 =>
          /\ outcome.tag \in {"pending", "WrongSheetCount"}
          /\ \A i \in Workers :
                wpc[i] = "new" /\ got[i] = None /\ courses[i] = None /\ stores[i] = 0

\* a workbook of 5 sheets was refused, its first sheet unreadable
C14_Witness ==
    /\ outcome.tag = "WrongSheetCount"
    /\ Len(pages) = 5
    /\ pages[1].range = "err"
    /\ \A i \in Workers : wpc[i] = "new"


\* ------------------------------------- claims: the numbers of the output
\* the groups of the course that was produced
Groups == IF course.some THEN course.v.groups ELSE <<>>

\* C15 (as stated): in the course that is produced, the subgroup numbers of
\* every WithSubgroups group are pairwise distinct, so that get_subgroup(n),
\* which returns the first subgroup of that number, leaves no other behind.
C15_NumbersDistinct ==
    pc = "done" =>
       \A g \in 1..Len(Groups) :
          Groups[g].subgroups.tag = "WithSubgroups" =>
             /\ \A i, j \in 1..Len(Groups[g].subgroups.list) :
                   Groups[g].subgroups.list[i].number = Groups[g].subgroups.list[j].number
                      => i = j
             /\ \A j \in 1..Len(Groups[g].subgroups.list) :
                   /\ FindSubgroup(Groups[g].subgroups.list,
                                   Groups[g].subgroups.list[j].number) = j
                   /\ get_subgroup(Groups[g], Groups[g].subgroups.list[j].number)
                         = Some(Groups[g].subgroups.list[j])


\* the error a non-empty header cell must end in, when the cell gives no
\* number from lo..255
HeaderCellError(cell) ==
    IF ~is_string(cell) THEN "CellTypeMismatch" ELSE "UnparsableSubgroupNumber"
GivesNumberFrom(cell, lo) ==
    /\ is_string(cell)
    /\ ParseU8(cell.s).some
    /\ ParseU8(cell.s).v \in lo..255

\* C16 (as stated): a non-empty consumed cell that is not a string, or whose
\* text is not a number from 1..255 ("0" included), is the last cell consumed
\* and ends the scan in CellTypeMismatch / UnparsableSubgroupNumber; hence
\* every Subgroup.number of the course is at least 1.
C16_NumbersAtLeastOne ==
    /\ \A i \in 1..Len(consumed) :
          (~is_empty(consumed[i]) /\ ~GivesNumberFrom(consumed[i], 1)) =>
             /\ i = Len(consumed)
             /\ pc = "error"
             /\ err = HeaderCellError(consumed[i])
    /\ pc = "done" =>
          \A g \in 1..Len(Groups) :
             Groups[g].subgroups.tag = "WithSubgroups" =>
                \A j \in 1..Len(Groups[g].subgroups.list) :
                   Groups[g].subgroups.list[j].number >= 1


\* C17: every Some(list) the header scan emits is non-empty, and in the
\* course that is produced the group of a Some(list) cluster is WithSubgroups
\* with exactly as many subgroups as the list has numbers, hence at least one.
C17_WithSubgroupsNonEmpty ==
    /\ \A k \in 1..Len(subgroups) : subgroups[k].some => Len(subgroups[k].v) >= 1
    /\ pc = "done" =>
          /\ Len(Groups) <= Len(subgroups)
          /\ \A g \in 1..Len(Groups) :
                IF subgroups[g].some
                THEN /\ Groups[g].subgroups.tag = "WithSubgroups"
                     /\ Len(Groups[g].subgroups.list) = Len(subgroups[g].v)
                     /\ Len(Groups[g].subgroups.list) >= 1
                ELSE Groups[g].subgroups.tag = "WithoutSubgroup"

\* a course whose second group has the two subgroups of its cluster, after
\* a group without subgroups
C17_Witness ==
    /\ pc = "done"
    /\ Len(Groups) >= 2
    /\ Groups[1].subgroups.tag = "WithoutSubgroup"
    /\ Groups[2].subgroups.tag = "WithSubgroups"
    /\ Len(Groups[2].subgroups.list) = 2
    /\ subgroups[2] = Some(<<1, 2>>)


\* ------------------------------------------- claims: the week-columns
\* C18: when the header scan has not failed, every second cell from offset 3
\* was consumed, and subgroups_num, the sum over the emitted clusters of the
\* list length for Some and 1 for None, is the number of consumed cells, or
\* 1 when no cell was consumed.
C18_OneColumnPerCell ==
    pc = "body" =>
       /\ Len(consumed) = ConsumedCount(sheet.width)
       /\ subgroups_num = SumSizes(subgroups)
       /\ subgroups_num = IF Len(consumed) = 0 THEN 1 ELSE Len(consumed)

\* five cells, empty and numbered, with lists closed by a smaller number and
\* by an empty cell: five week-columns in four clusters
C18_Witness ==
    /\ pc = "body"
    /\ consumed = <<String(<<"1">>), String(<<"2">>), String(<<"1">>), Empty, Empty>>
    /\ subgroups = <<Some(<<1, 2>>), Some(<<1>>), None, None>>
    /\ subgroups_num = 5


\* the assembly of the state: the names of the first header row zipped with
\* the clusters over the scanned weeks
Assembled == Assemble(first_row(named, sheet.width), subgroups, classes)

\* weeks a group of the course owns
WeeksOwned(group) ==
    IF group.subgroups.tag = "WithSubgroups" THEN Len(group.subgroups.list) ELSE 1
RECURSIVE SumOwned(_)
SumOwned(groups) ==
    IF groups = <<>> THEN 0 ELSE WeeksOwned(Head(groups)) + SumOwned(Tail(groups))

\* C19: assembly never finds the week cursor exhausted, whatever the header
\* scan emitted and however many group names there are; each Some(list)
\* cluster zipped with a name receives exactly Len(list) weeks; and when there
\* are as many names as clusters, all subgroups_num weeks have been pulled at
\* the end and the groups own subgroups_num weeks between them.
C19_CursorNeverExhausted ==
    /\ err # "WeekCursorExhausted"
    /\ pc = "done" =>
          /\ Assembled.err = "none"
          /\ Assembled.groups = Groups
          /\ Assembled.cursor <= subgroups_num
          /\ Assembled.cursor = SumOwned(Groups)
          /\ \A g \in 1..Len(Groups) :
                subgroups[g].some => WeeksOwned(Groups[g]) = Len(subgroups[g].v)
          /\ Cardinality(named) = Len(subgroups) =>
                /\ Len(Groups) = Len(subgroups)
                /\ Assembled.cursor = subgroups_num

\* None, then a list of two, under two names, after a body of at least one
\* pair: the three weeks are all pulled
C19_Witness ==
    /\ pc = "done"
    /\ row_count >= 1
    /\ subgroups = <<None, Some(<<1, 2>>)>>
    /\ Cardinality(named) = 2
    /\ Assembled.cursor = 3
    /\ subgroups_num = 3

====
